---- MODULE Spec2Model ----
(***************************************************************************)
(* Model of dpct's FlowGraph (flowgraph.cpp): construction of the          *)
(* time-expanded tracking graph and the successive-shortest-paths loop     *)
(* maxFlowMinCostTracking with division duplicates and arc enabling.       *)
(*                                                                         *)
(* Nodes are the ids 0, 1, 2, ... in order of creation, arcs the ids       *)
(* 1, 2, ... in order of creation.  Costs are integers, so the test        *)
(* "result.second > -0.00000001" reads "cost >= 0".                        *)
(***************************************************************************)
EXTENDS Integers, Sequences, FiniteSets, TLC

VARIABLES
    fg,              \* the FlowGraph object: base graph, maps, source_ and targets_
    residualGraph_,  \* the residual graph, once initializeResidualGraph built it
    pc,              \* "idle", "loop" (between iterations), "done" (returned), "error" (threw)
    iter,            \* size_t iter of maxFlowMinCostTracking
    currentEnergy,   \* double currentEnergy; the value returned at "done"
    result,          \* the last ShortestPathResult
    args,            \* the arguments of the running call
    exception,       \* what() of the exception thrown, or "none"
    augmentations,   \* calls of augmentUnitFlow made by the running call
    augmentedCost,   \* sum of the costs of the paths the running call augmented
    calls            \* calls of maxFlowMinCostTracking so far

vars == <<fg, residualGraph_, pc, iter, currentEnergy, result, args, exception,
          augmentations, augmentedCost, calls>>

(* ------------------------------ bounds -------------------------------- *)
MaxDetections == 2
MaxTimestep == 1
MaxBuildArcs == 6
MaxNumPaths == 2
MaxCalls == 1
MaxIter == 6
MaxSyncs == 2

(* ------------------------- small helpers ------------------------------ *)
Min(a, b) == IF a < b THEN a ELSE b
Max(a, b) == IF a > b THEN a ELSE b


NoNode == -1

(* ----------------------------- GraphStore ----------------------------- *)
\* ids of all arcs of the base graph, in order of creation
ArcIds(g) == 1..Len(g.arcs)
NodeIds(g) == 0..(g.numNodes - 1)

source(g, a) == g.arcs[a].source
target(g, a) == g.arcs[a].target

RECURSIVE Filter(_, _, _)
\* the arcs of sequence s (a sequence of arc ids) whose index is in keep
Filter(s, keep, i) ==
    IF i > Len(s) THEN <<>>
    ELSE IF s[i] \in keep THEN <<s[i]>> \o Filter(s, keep, i + 1)
    ELSE Filter(s, keep, i + 1)

\* Graph::ArcIt: all arcs, in insertion order
ArcIt(g) == [i \in 1..Len(g.arcs) |-> i]
\* Graph::OutArcIt / Graph::InArcIt: the arcs out of / into node n, in insertion order
OutArcIt(g, n) == Filter(ArcIt(g), {a \in ArcIds(g) : source(g, a) = n}, 1)
InArcIt(g, n) == Filter(ArcIt(g), {a \in ArcIds(g) : target(g, a) = n}, 1)

isTarget(g, n) == \E i \in 1..Len(g.targets_) : g.targets_[i] = n

(* ------------------------- FlowGraph construction --------------------- *)
\* std::map<Node, Node>, as a function from the keys present
EmptyMap == [k \in {} |-> NoNode]
MapHas(m, k) == k \in DOMAIN m
MapPut(m, k, x) == [j \in (DOMAIN m) \cup {k} |-> IF j = k THEN x ELSE m[j]]

\* FlowGraph::FlowGraph()
FlowGraph ==
    [ numNodes |-> 2,
      arcs |-> <<>>,
      source_ |-> 0,
      targets_ |-> <<1>>,
      nodeTimestepMap_ |-> (0 :> 0) @@ (1 :> 1),
      arcCosts_ |-> <<>>,
      flowMap_ |-> <<>>,
      capacityMap_ |-> <<>>,
      intermediateArcs_ |-> {},
      parentToDuplicateMap_ |-> EmptyMap,
      duplicateToParentMap_ |-> EmptyMap,
      fullNodes |-> <<>> ]

\* baseGraph_.addNode(): the new node gets the next id
baseAddNode(g) == [g EXCEPT !.numNodes = g.numNodes + 1]

\* FlowGraph::addArc(Node, Node, costs); the new arc is Len(arcs) of the result
addArc(g, src, tgt, costs) ==
    [g EXCEPT !.arcs = Append(g.arcs, [source |-> src, target |-> tgt]),
              !.arcCosts_ = Append(g.arcCosts_, costs),
              !.flowMap_ = Append(g.flowMap_, 0),
              !.capacityMap_ = Append(g.capacityMap_, Len(costs))]

\* timestep * 2 + 3 written to every target
RelabelTargets(g, ts) ==
    [n \in DOMAIN g.nodeTimestepMap_ |->
        IF isTarget(g, n) THEN ts ELSE g.nodeTimestepMap_[n]]

\* addNode relabelling the targets whatever their timestep was
addNodeAlwaysRelabel(g, costs, timestep) ==
    LET u == g.numNodes
        v == g.numNodes + 1
        g2 == addArc(baseAddNode(baseAddNode(g)), u, v, costs)
        g3 == [g2 EXCEPT !.intermediateArcs_ = @ \cup {Len(g2.arcs)},
                         !.nodeTimestepMap_ = (u :> timestep * 2 + 1) @@ (v :> timestep * 2 + 2) @@ @,
                         !.fullNodes = Append(@, [u |-> u, v |-> v, a |-> Len(g2.arcs), t |-> timestep])]
    IN [g3 EXCEPT !.nodeTimestepMap_ = RelabelTargets(g3, timestep * 2 + 3)]

\* FlowGraph::addNode(costs, timestep); the FullNode is the last of fullNodes
addNode(g, costs, timestep) ==
    LET u == g.numNodes
        v == g.numNodes + 1
        g1 == baseAddNode(baseAddNode(g))
        g2 == addArc(g1, u, v, costs)
        a == Len(g2.arcs)
        g3 == [g2 EXCEPT !.intermediateArcs_ = @ \cup {a},
                         !.nodeTimestepMap_ = (u :> timestep * 2 + 1) @@ (v :> timestep * 2 + 2) @@ @,
                         !.fullNodes = Append(@, [u |-> u, v |-> v, a |-> a, t |-> timestep])]
    IN IF timestep * 2 + 2 >= g3.nodeTimestepMap_[g3.targets_[1]]
       THEN [g3 EXCEPT !.nodeTimestepMap_ = RelabelTargets(g3, timestep * 2 + 3)]
       ELSE g3

\* FlowGraph::addArc(FullNode, FullNode, costs)
addArcFull(g, src, tgt, costs) == addArc(g, src.v, tgt.u, costs)

RECURSIVE CopyOutArcsWholeVector(_, _, _, _)
\* a copy loop that gives the duplicate arc the whole cost vector of the original
CopyOutArcsWholeVector(g, oas, i, duplicate) ==
    IF i > Len(oas) THEN g
    ELSE LET oa == oas[i]
         IN IF ~isTarget(g, target(g, oa))
            THEN CopyOutArcsWholeVector(addArc(g, duplicate, target(g, oa), g.arcCosts_[oa]),
                                        oas, i + 1, duplicate)
            ELSE CopyOutArcsWholeVector(g, oas, i + 1, duplicate)

RECURSIVE CopyOutArcs(_, _, _, _)
\* the loop over the out-arcs of parent.v in allowMitosis; oas is fixed at entry
CopyOutArcs(g, oas, i, duplicate) ==
    IF i > Len(oas) THEN g
    ELSE LET oa == oas[i]
         IN IF ~isTarget(g, target(g, oa))
            THEN CopyOutArcs(addArc(g, duplicate, target(g, oa), <<g.arcCosts_[oa][1]>>),
                             oas, i + 1, duplicate)
            ELSE CopyOutArcs(g, oas, i + 1, duplicate)

\* allowMitosis without the copies of the parent's out-arcs
allowMitosisNoCopies(g, parent, divisionCost) ==
    LET duplicate == g.numNodes
        g1 == baseAddNode(g)
        g2 == [g1 EXCEPT !.nodeTimestepMap_ = (duplicate :> g1.nodeTimestepMap_[parent.v]) @@ @]
        g3 == addArc(g2, g2.source_, duplicate, <<divisionCost>>)
    IN [g3 EXCEPT !.parentToDuplicateMap_ = MapPut(@, parent.v, duplicate),
                  !.duplicateToParentMap_ = MapPut(@, duplicate, parent.v)]

\* FlowGraph::allowMitosis(parent, divisionCost)
allowMitosis(g, parent, divisionCost) ==
    LET duplicate == g.numNodes
        g1 == baseAddNode(g)
        g2 == [g1 EXCEPT !.nodeTimestepMap_ = (duplicate :> g1.nodeTimestepMap_[parent.v]) @@ @]
        g3 == addArc(g2, g2.source_, duplicate, <<divisionCost>>)
        g4 == CopyOutArcs(g3, OutArcIt(g3, parent.v), 1, duplicate)
    IN [g4 EXCEPT !.parentToDuplicateMap_ = MapPut(@, parent.v, duplicate),
                  !.duplicateToParentMap_ = MapPut(@, duplicate, parent.v)]

(* ---------------------------- ResidualGraph --------------------------- *)
Forward == 1
Backward == -1
Infinity == 1000

\* getArcCost(a, flow): the marginal cost of unit number flow of arc a
getArcCost(g, a, flow) ==
    IF flow >= 0 /\ flow < Len(g.arcCosts_[a]) THEN g.arcCosts_[a][flow + 1]
    ELSE IF flow < 0 THEN -Infinity ELSE Infinity

ResidualArc == [cost |-> 0, capacity |-> 0, enabled |-> FALSE, provided |-> {}, forbidden |-> {}]

NoResidualGraph == [exists |-> FALSE, useBackArcs |-> FALSE, arcs |-> <<>>]

\* ResidualGraph(baseGraph_, ...): a forward and a backward residual arc per base arc
NewResidualGraph(g) ==
    [exists |-> TRUE, useBackArcs |-> FALSE,
     arcs |-> [a \in 1..Len(g.arcs) |-> [f |-> ResidualArc, b |-> ResidualArc]]]

\* ResidualGraph::updateArc(a, direction, cost, capacity)
rgUpdateArc(rg, a, dir, cost, capacity) ==
    IF dir = Forward
    THEN [rg EXCEPT !.arcs[a].f.cost = cost, !.arcs[a].f.capacity = capacity]
    ELSE [rg EXCEPT !.arcs[a].b.cost = cost, !.arcs[a].b.capacity = capacity]

\* enableArc(a, b): both residual arcs of base arc a
enableArc(rg, a, b) ==
    [rg EXCEPT !.arcs[a].f.enabled = b, !.arcs[a].b.enabled = b]

addProvidedToken(rg, a, dir, token) ==
    IF dir = Forward
    THEN [rg EXCEPT !.arcs[a].f.provided = @ \cup {token}]
    ELSE [rg EXCEPT !.arcs[a].b.provided = @ \cup {token}]

addForbiddenToken(rg, a, dir, token) ==
    IF dir = Forward
    THEN [rg EXCEPT !.arcs[a].f.forbidden = @ \cup {token}]
    ELSE [rg EXCEPT !.arcs[a].b.forbidden = @ \cup {token}]

RECURSIVE EnableAll(_, _, _, _)
\* enableArc(a, b) for every arc of the sequence as, in order
EnableAll(rg, as, i, b) ==
    IF i > Len(as) \/ ~rg.exists THEN rg ELSE EnableAll(enableArc(rg, as[i], b), as, i + 1, b)

\* the toggles of updateEnabledArc
toggleDivision(g, rg, div, tgt, b) ==
    EnableAll(rg, OutArcIt(g, div), 1, b)
toggleOutArcs(g, rg, n, b) ==
    EnableAll(rg, OutArcIt(g, n), 1, b)
toggleOutArcsButTarget(g, rg, n, b) ==
    EnableAll(rg, Filter(OutArcIt(g, n), {a \in ArcIds(g) : ~isTarget(g, target(g, a))}, 1), 1, b)
toggleInArcsBut(g, rg, n, but, b) ==
    EnableAll(rg, Filter(InArcIt(g, n), {a \in ArcIds(g) : source(g, a) # but}, 1), 1, b)
toggleOutArcsBut(g, rg, n, but, b) ==
    EnableAll(rg, Filter(OutArcIt(g, n), {a \in ArcIds(g) : target(g, a) # but}, 1), 1, b)
toggleDisappearanceArc(g, rg, n, b) ==
    EnableAll(rg, Filter(OutArcIt(g, n), {a \in ArcIds(g) : isTarget(g, target(g, a))}, 1), 1, b)
toggleAppearanceArc(g, rg, n, b) ==
    EnableAll(rg, Filter(InArcIt(g, n), {a \in ArcIds(g) : source(g, a) = g.source_}, 1), 1, b)

RECURSIVE FlowSum(_, _, _)
FlowSum(g, as, i) == IF i > Len(as) THEN 0 ELSE g.flowMap_[as[i]] + FlowSum(g, as, i + 1)
sumInFlow(g, n) == FlowSum(g, InArcIt(g, n), 1)
sumOutFlow(g, n) == FlowSum(g, OutArcIt(g, n), 1)

(* ------------------- FlowGraph: residual bookkeeping ------------------ *)
\* The solver state threaded through the loops: the flow graph, the residual
\* graph and the exception in flight ("none" when there is none).
NoException == "none"

\* an updateArc that refreshes the forward residual arc only
updateArcForwardOnly(s, a) ==
    LET flow == s.fg.flowMap_[a]
        capacity == s.fg.capacityMap_[a]
    IN IF s.exception # NoException THEN s
       ELSE IF flow < 0 THEN [s EXCEPT !.exception = "Found Arc with negative flow!"]
       ELSE IF flow > capacity THEN [s EXCEPT !.exception = "Found Arc with more flow than capacity!"]
       ELSE [s EXCEPT !.rg = rgUpdateArc(@, a, Forward, getArcCost(s.fg, a, flow), capacity - flow)]

\* FlowGraph::updateArc(a)
updateArc(s, a) ==
    LET flow == s.fg.flowMap_[a]
        capacity == s.fg.capacityMap_[a]
    IN IF s.exception # NoException THEN s
       ELSE IF flow < 0 THEN [s EXCEPT !.exception = "Found Arc with negative flow!"]
       ELSE IF flow > capacity THEN [s EXCEPT !.exception = "Found Arc with more flow than capacity!"]
       ELSE [s EXCEPT !.rg =
                rgUpdateArc(rgUpdateArc(@, a, Forward, getArcCost(s.fg, a, flow), capacity - flow),
                            a, Backward, -1 * getArcCost(s.fg, a, flow - 1), flow)]

\* FlowGraph::updateEnabledArc(a)
updateEnabledArc(g, rg, a) ==
    LET src == source(g, a)
        tgt == target(g, a)
        rg1 ==
          IF MapHas(g.parentToDuplicateMap_, src) /\ ~isTarget(g, tgt)
          THEN IF sumInFlow(g, src) = 1
               THEN toggleDivision(g, rg, g.parentToDuplicateMap_[src], tgt, TRUE)
               ELSE toggleDivision(g, rg, g.parentToDuplicateMap_[src], tgt, FALSE)
          ELSE IF MapHas(g.duplicateToParentMap_, tgt)
          THEN IF g.flowMap_[a] = 1
               THEN toggleOutArcs(g, rg, g.duplicateToParentMap_[tgt], FALSE)
               ELSE toggleOutArcsButTarget(g, rg, g.duplicateToParentMap_[tgt], TRUE)
          ELSE IF src = g.source_
          THEN toggleInArcsBut(g, rg, tgt, src, g.flowMap_[a] = 0)
          ELSE IF isTarget(g, tgt)
          THEN toggleOutArcsBut(g, rg, src, tgt, g.flowMap_[a] = 0)
          ELSE rg
    IN IF src # g.source_ /\ ~isTarget(g, tgt) /\ a \notin g.intermediateArcs_
       THEN toggleAppearanceArc(g, toggleDisappearanceArc(g, rg1, src, sumOutFlow(g, src) = 0),
                                tgt, sumInFlow(g, tgt) = 0)
       ELSE rg1

RECURSIVE updateEnabledArcs(_, _, _, _)
\* FlowGraph::updateEnabledArcs(p), from entry i of the path on
updateEnabledArcs(g, rg, p, i) ==
    IF i > Len(p) \/ ~rg.exists THEN rg
    ELSE updateEnabledArcs(g, updateEnabledArc(g, rg, p[i][1]), p, i + 1)

\* a coupling that forgets the parent arc
CoupleParentArcDropped(s, oas, i, af) == s

RECURSIVE CoupleParentArc(_, _, _, _)
\* augmentUnitFlow, source(af.first) is a duplicate: the first out-arc of the
\* parent with the same target takes the same change of flow
CoupleParentArc(s, oas, i, af) ==
    IF i > Len(oas) \/ s.exception # NoException THEN s
    ELSE IF target(s.fg, oas[i]) = target(s.fg, af[1])
         THEN updateArc([s EXCEPT !.fg.flowMap_[oas[i]] = @ + af[2]], oas[i])
         ELSE CoupleParentArc(s, oas, i + 1, af)

RECURSIVE CoupleDuplicateArc(_, _, _, _)
\* augmentUnitFlow, source(af.first) is a parent: the first out-arc of the
\* duplicate with the same target is set to min(flow of af.first, 1)
CoupleDuplicateArc(s, oas, i, af) ==
    IF i > Len(oas) \/ s.exception # NoException THEN s
    ELSE IF target(s.fg, oas[i]) = target(s.fg, af[1])
         THEN updateArc([s EXCEPT !.fg.flowMap_[oas[i]] = Min(s.fg.flowMap_[af[1]], 1)], oas[i])
         ELSE CoupleDuplicateArc(s, oas, i + 1, af)

\* one turn of the loop of augmentUnitFlow, for path entry af = <<arc, +1 or -1>>
AugmentArc(s, af) ==
    LET s1 == updateArc([s EXCEPT !.fg.flowMap_[af[1]] = @ + af[2]], af[1])
        src == source(s.fg, af[1])
    IN IF s1.exception # NoException THEN s1
       ELSE IF MapHas(s1.fg.duplicateToParentMap_, src)
       THEN CoupleParentArc(s1, OutArcIt(s1.fg, s1.fg.duplicateToParentMap_[src]), 1, af)
       ELSE IF MapHas(s1.fg.parentToDuplicateMap_, src)
       THEN CoupleDuplicateArc(s1, OutArcIt(s1.fg, s1.fg.parentToDuplicateMap_[src]), 1, af)
       ELSE s1

RECURSIVE augmentUnitFlow(_, _, _)
\* FlowGraph::augmentUnitFlow(p), from entry i of the path on; an exception
\* thrown by updateArc ends it, leaving the flow written so far
augmentUnitFlow(s, p, i) ==
    IF i > Len(p) \/ s.exception # NoException THEN s
    ELSE augmentUnitFlow(AugmentArc(s, p[i]), p, i + 1)

RECURSIVE InitArcs(_, _, _)
\* first loop of initializeResidualGraph: updateArc, enableArc and the tokens
InitArcs(s, as, i) ==
    IF i > Len(as) \/ s.exception # NoException THEN s
    ELSE LET a == as[i]
             tgt == target(s.fg, a)
             s1 == updateArc(s, a)
             rg1 == enableArc(s1.rg, a, TRUE)
             rg2 == IF MapHas(s.fg.duplicateToParentMap_, tgt)
                    THEN addProvidedToken(rg1, a, Forward, s.fg.duplicateToParentMap_[tgt])
                    ELSE IF MapHas(s.fg.parentToDuplicateMap_, tgt)
                    THEN addForbiddenToken(rg1, a, Backward, tgt)
                    ELSE rg1
         IN InitArcs([s1 EXCEPT !.rg = rg2], as, i + 1)

RECURSIVE InitEnabled(_, _, _, _)
\* second loop of initializeResidualGraph: updateEnabledArc for every arc
InitEnabled(g, rg, as, i) ==
    IF i > Len(as) \/ ~rg.exists THEN rg
    ELSE InitEnabled(g, updateEnabledArc(g, rg, as[i]), as, i + 1)

\* FlowGraph::initializeResidualGraph(useBackArcs, useOrderedNodeListInBF)
initializeResidualGraph(g, useBackArcs) ==
    LET rg0 == [NewResidualGraph(g) EXCEPT !.useBackArcs = useBackArcs]
        s1 == InitArcs([fg |-> g, rg |-> rg0, exception |-> NoException], ArcIt(g), 1)
    IN InitEnabled(g, s1.rg, ArcIt(g), 1)

(* -------------------------- ShortestPathFinder ------------------------ *)
\* a residual arc is a pair <<base arc, direction>>
residualArc(rg, e) == IF e[2] = Forward THEN rg.arcs[e[1]].f ELSE rg.arcs[e[1]].b
residualSource(g, e) == IF e[2] = Forward THEN source(g, e[1]) ELSE target(g, e[1])
residualTarget(g, e) == IF e[2] = Forward THEN target(g, e[1]) ELSE source(g, e[1])

\* the search only traverses enabled residual arcs with positive residual
\* capacity; backward arcs take part when useBackArcs is on
Traversable(g, rg, e) ==
    /\ residualArc(rg, e).enabled
    /\ residualArc(rg, e).capacity > 0
    /\ (e[2] = Forward \/ rg.useBackArcs)

ResidualArcsFrom(g, rg, n) ==
    {e \in ArcIds(g) \X {Forward, Backward} : Traversable(g, rg, e) /\ residualSource(g, e) = n}

RECURSIVE ValidWalks(_, _, _, _, _, _)
\* the simple walks from n to a node of goal: no arc on them forbids a token
\* that an earlier arc of the walk provided
ValidWalks(g, rg, n, visited, tokens, goal) ==
    IF n \in goal THEN {<<>>}
    ELSE UNION {{<<e>> \o w : w \in ValidWalks(g, rg, residualTarget(g, e),
                                               visited \cup {residualTarget(g, e)},
                                               tokens \cup residualArc(rg, e).provided, goal)} :
                e \in {x \in ResidualArcsFrom(g, rg, n) :
                         /\ residualTarget(g, x) \notin visited
                         /\ residualArc(rg, x).forbidden \cap tokens = {}}}

RECURSIVE PathCost(_, _)
PathCost(rg, p) == IF p = <<>> THEN 0 ELSE residualArc(rg, Head(p)).cost + PathCost(rg, Tail(p))

RECURSIVE ReachableFrom(_, _, _)
\* the nodes the search can label, starting from the set seen
ReachableFrom(g, rg, seen) ==
    LET more == {residualTarget(g, e) : e \in UNION {ResidualArcsFrom(g, rg, n) : n \in seen}}
    IN IF more \subseteq seen THEN seen ELSE ReachableFrom(g, rg, seen \cup more)

TargetSet(g) == {g.targets_[i] : i \in 1..Len(g.targets_)}

SourceTargetPaths(g, rg) == ValidWalks(g, rg, g.source_, {g.source_}, {}, TargetSet(g))

\* the tokens provided by the arcs of walk w
ProvidedOn(rg, w) == UNION {residualArc(rg, w[i]).provided : i \in 1..Len(w)}

\* the simple cycles through a node the search can reach, of negative cost; a
\* cycle is valid if none of its arcs forbids a token provided on the cycle
NegativeCycles(g, rg) ==
    {c \in UNION {UNION {{<<e>> \o w : w \in ValidWalks(g, rg, residualTarget(g, e),
                                                        {residualTarget(g, e)},
                                                        residualArc(rg, e).provided, {n})} :
                         e \in ResidualArcsFrom(g, rg, n)} :
                  n \in ReachableFrom(g, rg, {g.source_})} :
        /\ PathCost(rg, c) < 0
        /\ \A i \in 1..Len(c) : residualArc(rg, c[i]).forbidden \cap ProvidedOn(rg, c) = {}}

\* ResidualGraph::findShortestPath(targets): the lowest-cost valid path from
\* the source to a target, or the lowest-cost negative cycle; an empty path
\* at distance Infinity when there is neither
findShortestPath(g, rg) ==
    LET cands == SourceTargetPaths(g, rg) \cup NegativeCycles(g, rg)
    IN IF cands = {} THEN {[first |-> <<>>, second |-> Infinity]}
       ELSE {[first |-> p, second |-> PathCost(rg, p)] :
                p \in {q \in cands : \A o \in cands : PathCost(rg, q) <= PathCost(rg, o)}}

(* ----------------------- construction calls --------------------------- *)
\* One call of the construction interface, applied to the flow graph.  The
\* caller names a detection by its position in the order of the addNode calls.
Construct(g, c) ==
    CASE c.op = "addNode" -> addNode(g, c.costs, c.timestep)
      [] c.op = "appearance" -> addArc(g, g.source_, g.fullNodes[c.tgt].u, c.costs)
      [] c.op = "disappearance" -> addArc(g, g.fullNodes[c.src].v, g.targets_[1], c.costs)
      [] c.op = "addArc" -> addArcFull(g, g.fullNodes[c.src], g.fullNodes[c.tgt], c.costs)
      [] c.op = "allowMitosis" -> allowMitosis(g, g.fullNodes[c.parent], c.divisionCost)

RECURSIVE ConstructAll(_, _, _)
ConstructAll(g, cs, i) == IF i > Len(cs) THEN g ELSE ConstructAll(Construct(g, cs[i]), cs, i + 1)

NodeCall(costs, t) == [op |-> "addNode", costs |-> costs, timestep |-> t]
AppCall(n, costs) == [op |-> "appearance", tgt |-> n, costs |-> costs]
DisappCall(n, costs) == [op |-> "disappearance", src |-> n, costs |-> costs]
ArcCall(m, n, costs) == [op |-> "addArc", src |-> m, tgt |-> n, costs |-> costs]
MitosisCall(n, cost) == [op |-> "allowMitosis", parent |-> n, divisionCost |-> cost]

Opt(b, cs) == IF b THEN cs ELSE <<>>
Ones(n) == [i \in 1..n |-> 1]

\* A family of tracking problems: detection A (1) at timestep 0 and its
\* possible successors B (2) and C (3) at timestep 1; A may divide.  B may also
\* appear (the caller adds its appearance arc before the transition arcs, or
\* last of all), A may also disappear, and A -> B is one arc of one or two
\* units or two parallel arcs.
Problem(p) ==
    <<NodeCall(p.costsA, 0), NodeCall(p.costsB, 1), NodeCall(<<-4>>, 1),
      AppCall(1, Ones(Len(p.costsA)))>>
    \o Opt(~p.lateAppB, [i \in 1..Len(p.appB) |-> AppCall(2, <<p.appB[i]>>)])
    \o <<DisappCall(2, Ones(Len(p.costsB))), DisappCall(3, <<2>>)>>
    \o Opt(p.disappA, <<DisappCall(1, <<-3>>)>>)
    \o [i \in 1..Len(p.arcsAB) |-> ArcCall(1, 2, p.arcsAB[i])]
    \o Opt(p.arcAC, <<ArcCall(1, 3, <<1>>)>>)
    \o [i \in 1..Len(p.division) |-> MitosisCall(1, p.division[i])]
    \o Opt(p.lateAppB, [i \in 1..Len(p.appB) |-> AppCall(2, <<p.appB[i]>>)])

\* "No-profitable-flow": a single detection of cost [+5]
NoProfitScenario ==
    <<NodeCall(<<5>>, 0), AppCall(1, <<1>>), DisappCall(1, <<1>>)>>

\* "Division": parent A [-2], children B and C [-3], division cost -4
DivisionScenario ==
    <<NodeCall(<<-2>>, 0), NodeCall(<<-3>>, 1), NodeCall(<<-3>>, 1),
      AppCall(1, <<1>>), DisappCall(2, <<1>>), DisappCall(3, <<1>>),
      ArcCall(1, 2, <<0>>), ArcCall(1, 3, <<0>>), MitosisCall(1, -4)>>

Problems ==
    {Problem(p) : p \in
        [costsA : {<<-4>>, <<-4, -2>>}, costsB : {<<-3>>, <<-3, -3>>},
         arcsAB : {<< <<0>> >>, << <<0>>, <<1>> >>, << <<0, -1>> >>},
         appB : {<<>>, <<-5>>}, lateAppB : BOOLEAN,
         disappA : BOOLEAN, arcAC : BOOLEAN,
         division : {<<>>, <<-4>>, <<-6>>, <<4>>}]}
    \cup {NoProfitScenario, DivisionScenario}

InitialEnergies == {7}

(* ------------------------------ tracking ------------------------------ *)
NoResult == [first |-> <<>>, second |-> 0]
NoArgs == [initialStateEnergy |-> 0, useBackArcs |-> FALSE, maxNumPaths |-> 0]

Init ==
    /\ \E cs \in Problems : fg = ConstructAll(FlowGraph, cs, 1)
    /\ residualGraph_ = NoResidualGraph
    /\ pc = "idle"
    /\ iter = 0
    /\ currentEnergy = 0
    /\ result = NoResult
    /\ args = NoArgs
    /\ exception = NoException
    /\ augmentations = 0
    /\ augmentedCost = 0
    /\ calls = 0

\* a call that builds the residual graph anew whether or not there is one
ResidualGraphRebuilt(rg, g, useBackArcs) == initializeResidualGraph(g, useBackArcs)

\* if(!residualGraph_) initializeResidualGraph(useBackArcs, ...)
ResidualGraphForCall(rg, g, useBackArcs) ==
    IF ~rg.exists THEN initializeResidualGraph(g, useBackArcs) ELSE rg

\* maxFlowMinCostTracking, up to the do-while loop, for a caller that makes
\* at most limit calls with initialStateEnergy from energies and maxNumPaths
\* from paths
BeginCall(limit, energies, paths) ==
    /\ pc \in {"idle", "done"}
    /\ calls < limit
    /\ \E e \in energies, useBackArcs \in BOOLEAN, maxNumPaths \in paths :
          /\ args' = [initialStateEnergy |-> e, useBackArcs |-> useBackArcs,
                      maxNumPaths |-> maxNumPaths]
          /\ residualGraph_' = ResidualGraphForCall(residualGraph_, fg, useBackArcs)
          /\ currentEnergy' = e
    /\ iter' = 0
    /\ augmentations' = 0
    /\ augmentedCost' = 0
    /\ result' = NoResult
    /\ calls' = calls + 1
    /\ pc' = "loop"
    /\ UNCHANGED <<fg, exception>>

Begin == BeginCall(MaxCalls, InitialEnergies, 0..MaxNumPaths)

\* a do-while condition that lets one iteration too many through
LoopAgainOffByOne(r, it, maxNumPaths) ==
    Len(r.first) > 0 /\ r.second < 0 /\ (maxNumPaths < 1 \/ it <= maxNumPaths)

\* the do-while condition at the end of an iteration
LoopAgain(r, it, maxNumPaths) ==
    Len(r.first) > 0 /\ r.second < 0 /\ (maxNumPaths < 1 \/ it < maxNumPaths)

\* an iteration that augments whatever path it got, profitable or not
IterationKindNoThreshold(r) ==
    IF Len(r.first) > 0 THEN "augment" ELSE "break"

\* what an iteration does with the result of findShortestPath: leave the loop
\* (result.second > -0.00000001), augment, or neither
IterationKind(r) ==
    IF r.second >= 0 THEN "break"
    ELSE IF Len(r.first) > 0 /\ r.second < 0 THEN "augment"
    ELSE "skip"

\* the energy update with the sign of the path cost turned
NewEnergySubtracting(e, r) == e - r.second

\* currentEnergy += result.second
NewEnergy(e, r) == e + r.second

\* one iteration of the do-while loop of maxFlowMinCostTracking
Iterate ==
    /\ pc = "loop"
    /\ iter < MaxIter
    /\ \E r \in findShortestPath(fg, residualGraph_) :
          /\ result' = r
          /\ CASE IterationKind(r) = "break" ->
                  /\ pc' = "done"
                  /\ UNCHANGED <<fg, residualGraph_, iter, currentEnergy, exception,
                                 augmentations, augmentedCost>>
               [] IterationKind(r) = "augment" ->
                  LET s == augmentUnitFlow([fg |-> fg, rg |-> residualGraph_,
                                            exception |-> NoException], r.first, 1)
                  IN /\ fg' = s.fg
                     /\ augmentations' = augmentations + 1
                     /\ IF s.exception # NoException
                        THEN /\ exception' = s.exception
                             /\ residualGraph_' = s.rg
                             /\ pc' = "error"
                             /\ UNCHANGED <<iter, currentEnergy, augmentedCost>>
                        ELSE /\ residualGraph_' = updateEnabledArcs(s.fg, s.rg, r.first, 1)
                             /\ currentEnergy' = NewEnergy(currentEnergy, r)
                             /\ augmentedCost' = augmentedCost + r.second
                             /\ iter' = iter + 1
                             /\ pc' = IF LoopAgain(r, iter + 1, args.maxNumPaths)
                                      THEN "loop" ELSE "done"
                             /\ UNCHANGED exception
               [] IterationKind(r) = "skip" ->
                  /\ iter' = iter + 1
                  /\ pc' = IF LoopAgain(r, iter + 1, args.maxNumPaths) THEN "loop" ELSE "done"
                  /\ UNCHANGED <<fg, residualGraph_, currentEnergy, exception,
                                 augmentations, augmentedCost>>
    /\ UNCHANGED <<args, calls>>

Next == Begin \/ Iterate

Spec == Init /\ [][Next]_vars

\* A caller that solves with unlimited paths and then calls again on the
\* same FlowGraph, with another initialStateEnergy and any maxNumPaths.
RerunEnergies == {3}

BeginRerun ==
    IF calls = 0 THEN BeginCall(MaxCalls + 1, InitialEnergies, {0})
    ELSE BeginCall(MaxCalls + 1, RerunEnergies, 0..MaxNumPaths)

NextRerun == BeginRerun \/ Iterate

SpecRerun == Init /\ [][NextRerun]_vars

(* ---------------------------- construction ---------------------------- *)
\* The construction interface driven in any order, from the empty FlowGraph.
BuildCosts == {<<1>>, <<2, 3>>}

InitBuild ==
    /\ fg = FlowGraph
    /\ residualGraph_ = NoResidualGraph
    /\ pc = "idle"
    /\ iter = 0
    /\ currentEnergy = 0
    /\ result = NoResult
    /\ args = NoArgs
    /\ exception = NoException
    /\ augmentations = 0
    /\ augmentedCost = 0
    /\ calls = 0

Built(c) ==
    /\ fg' = Construct(fg, c)
    /\ UNCHANGED <<residualGraph_, pc, iter, currentEnergy, result, args, exception,
                   augmentations, augmentedCost, calls>>

Detections == 1..Len(fg.fullNodes)

AddNode ==
    /\ Len(fg.fullNodes) < MaxDetections
    /\ \E costs \in BuildCosts, t \in 0..MaxTimestep : Built(NodeCall(costs, t))

AddAppearance ==
    /\ Len(fg.arcs) < MaxBuildArcs
    /\ \E n \in Detections, costs \in BuildCosts : Built(AppCall(n, costs))

AddDisappearance ==
    /\ Len(fg.arcs) < MaxBuildArcs
    /\ \E n \in Detections, costs \in BuildCosts : Built(DisappCall(n, costs))

AddArc ==
    /\ Len(fg.arcs) < MaxBuildArcs
    /\ \E m, n \in Detections, costs \in BuildCosts : m # n /\ Built(ArcCall(m, n, costs))

AllowMitosis ==
    /\ Len(fg.arcs) < MaxBuildArcs
    /\ \E n \in Detections : Built(MitosisCall(n, -4))

NextBuild == AddNode \/ AddAppearance \/ AddDisappearance \/ AddArc \/ AllowMitosis

SpecBuild == InitBuild /\ [][NextBuild]_vars

(* --------------- synchronizeDivisionDuplicateArcFlows ----------------- *)
RECURSIVE SortedNodes(_)
\* the keys of a std::map<Node, Node>, in the order a range-for visits them
SortedNodes(S) ==
    IF S = {} THEN <<>>
    ELSE LET n == CHOOSE x \in S : \A y \in S : x <= y
         IN <<n>> \o SortedNodes(S \ {n})

RECURSIVE SyncDuplicateArc(_, _, _, _, _)
\* the inner loop: the first out-arc of the duplicate with the target of oa
\* is paired with oa; origFlow was read before the loop
SyncDuplicateArc(flow, g, oa, doas, j) ==
    IF j > Len(doas) THEN flow
    ELSE IF target(g, oa) = target(g, doas[j])
         THEN LET f == Max(flow[oa], flow[doas[j]])
              IN [flow EXCEPT ![doas[j]] = Min(f, 1), ![oa] = f]
         ELSE SyncDuplicateArc(flow, g, oa, doas, j + 1)

RECURSIVE SyncParentArcs(_, _, _, _, _)
\* the loop over the out-arcs of one parent
SyncParentArcs(flow, g, oas, doas, i) ==
    IF i > Len(oas) THEN flow
    ELSE SyncParentArcs(SyncDuplicateArc(flow, g, oas[i], doas, 1), g, oas, doas, i + 1)

RECURSIVE SyncParents(_, _, _, _)
\* the loop over parentToDuplicateMap_
SyncParents(flow, g, ps, k) ==
    IF k > Len(ps) THEN flow
    ELSE SyncParents(SyncParentArcs(flow, g, OutArcIt(g, ps[k]),
                                    OutArcIt(g, g.parentToDuplicateMap_[ps[k]]), 1),
                     g, ps, k + 1)

\* FlowGraph::synchronizeDivisionDuplicateArcFlows(): the new flowMap_
synchronizeDivisionDuplicateArcFlows(g) ==
    SyncParents(g.flowMap_, g, SortedNodes(DOMAIN g.parentToDuplicateMap_), 1)

\* Graphs with a division, carrying any flow within capacity (the output of
\* another solver): one arc per child, an arc of two units, two parallel arcs.
SyncProblems ==
    {DivisionScenario,
     Problem([costsA |-> <<-4, -2>>, costsB |-> <<-3>>, arcsAB |-> << <<0, -1>> >>,
              appB |-> <<>>, lateAppB |-> FALSE, disappA |-> FALSE, arcAC |-> TRUE,
              division |-> <<-4>>]),
     Problem([costsA |-> <<-4, -2>>, costsB |-> <<-3>>, arcsAB |-> << <<0>>, <<1>> >>,
              appB |-> <<>>, lateAppB |-> FALSE, disappA |-> FALSE, arcAC |-> FALSE,
              division |-> <<-4>>])}

\* the flow assignments of g in which every arc is within its capacity
FlowsWithinCapacity(g) ==
    {f \in [ArcIds(g) -> 0..2] : \A a \in ArcIds(g) : f[a] <= g.capacityMap_[a]}

InitSync ==
    /\ \E cs \in SyncProblems :
          LET g == ConstructAll(FlowGraph, cs, 1)
          IN \E f \in FlowsWithinCapacity(g) : fg = [g EXCEPT !.flowMap_ = f]
    /\ residualGraph_ = NoResidualGraph
    /\ pc = "idle"
    /\ iter = 0
    /\ currentEnergy = 0
    /\ result = NoResult
    /\ args = NoArgs
    /\ exception = NoException
    /\ augmentations = 0
    /\ augmentedCost = 0
    /\ calls = 0

\* one call of synchronizeDivisionDuplicateArcFlows; calls counts them
Synchronize ==
    /\ calls < MaxSyncs
    /\ fg' = [fg EXCEPT !.flowMap_ = synchronizeDivisionDuplicateArcFlows(fg)]
    /\ calls' = calls + 1
    /\ UNCHANGED <<residualGraph_, pc, iter, currentEnergy, result, args, exception,
                   augmentations, augmentedCost>>

NextSync == Synchronize

SpecSync == InitSync /\ [][NextSync]_vars

TypeOK == pc \in {"idle", "loop", "done", "error"}

(* ======================= the flow invariants ========================== *)
\* a state between two iterations of the loop, or at the return of the call
BetweenIterations == pc \in {"loop", "done"}

Duplicates == DOMAIN fg.duplicateToParentMap_
Parents == DOMAIN fg.parentToDuplicateMap_

RECURSIVE FlowOver(_)
\* the sum of the flow over a set of arcs
FlowOver(S) ==
    IF S = {} THEN 0
    ELSE LET a == CHOOSE x \in S : TRUE IN fg.flowMap_[a] + FlowOver(S \ {a})

\* C1: after every iteration every base arc has 0 <= flow <= capacity, and
\* the exceptions of updateArc ("negative flow", "more flow than capacity")
\* are never thrown.
C1_FlowWithinCapacity ==
    /\ exception = NoException
    /\ \A a \in ArcIds(fg) : fg.flowMap_[a] >= 0 /\ fg.flowMap_[a] <= fg.capacityMap_[a]

OwnInArcs(n) == {a \in ArcIds(fg) : target(fg, a) = n /\ source(fg, a) \notin Duplicates}
\* the division arcs source -> d of the duplicates d of parent n
DivisionArcsOf(n) ==
    {a \in ArcIds(fg) : /\ target(fg, a) \in Duplicates
                        /\ fg.duplicateToParentMap_[target(fg, a)] = n}

ArcsBetween(m, w) == {a \in ArcIds(fg) : source(fg, a) = m /\ target(fg, a) = w}

\* C3: after every augmentation, for each parent v with duplicate d and each
\* w with an arc v -> w and an arc d -> w, flow(d -> w) = min(flow(v -> w), 1)
\* and flow(v -> w) >= flow(d -> w).
C3_DivisionCoupling ==
    BetweenIterations =>
        \A v \in Parents : \A w \in NodeIds(fg) :
            \A a \in ArcsBetween(v, w), b \in ArcsBetween(fg.parentToDuplicateMap_[v], w) :
                (Cardinality(ArcsBetween(v, w)) = 1
                 /\ Cardinality(ArcsBetween(fg.parentToDuplicateMap_[v], w)) = 1)
                    => /\ fg.flowMap_[b] = Min(fg.flowMap_[a], 1)
                       /\ fg.flowMap_[a] >= fg.flowMap_[b]

\* the appearance arcs source -> u of detection entry nodes
IsAppearanceArc(a) == source(fg, a) = fg.source_ /\ target(fg, a) \notin Duplicates
IsDisappearanceArc(a) == isTarget(fg, target(fg, a))

\* C4: after every iteration, if the appearance arc of a detection entry node
\* u carries flow then no other in-arc of u does, and if a disappearance arc
\* of an exit node v carries flow then no other out-arc of v does.
C4_NoPartialAppearance ==
    BetweenIterations =>
        \A a \in ArcIds(fg) :
            /\ (IsAppearanceArc(a) /\ fg.flowMap_[a] > 0)
                  => \A b \in ArcIds(fg) \ {a} : target(fg, b) = target(fg, a) => fg.flowMap_[b] = 0
            /\ (IsDisappearanceArc(a) /\ fg.flowMap_[a] > 0)
                  => \A b \in ArcIds(fg) \ {a} : source(fg, b) = source(fg, a) => fg.flowMap_[b] = 0

\* C5: within a call the energy never increases from one iteration to the
\* next, and every iteration that augments flow strictly decreases it.
C5_EnergyMonotone ==
    [][pc = "loop" =>
          /\ currentEnergy' <= currentEnergy
          /\ (augmentations' = augmentations + 1 /\ pc' # "error")
                => currentEnergy' < currentEnergy]_vars

\* two iterations augmented flow and the call returned a lower energy
C5_Witness ==
    pc = "done" /\ iter >= 2 /\ augmentations = iter
    /\ currentEnergy < args.initialStateEnergy

(* ========================= the tracking loop ========================== *)
\* C6: with unlimited paths the loop ends within |V| * |A| iterations, and no
\* augmenting iteration leaves the flow state as it found it (the loop would
\* then go round for ever).
C6_Terminates ==
    /\ [](iter <= fg.numNodes * Len(fg.arcs))
    /\ [][(pc = "loop" /\ args.maxNumPaths < 1 /\ augmentations' = augmentations + 1)
            => <<fg', residualGraph_'>> # <<fg, residualGraph_>>]_vars

\* some result of findShortestPath in this state would be augmented
NegativePathExists ==
    \E r \in findShortestPath(fg, residualGraph_) : IterationKind(r) = "augment"

\* C7: for maxNumPaths >= 1 a call makes at most maxNumPaths augmentations;
\* once iter reaches the cap the call has returned, not thrown, and what it
\* returns is initialStateEnergy plus the costs of the paths it augmented.
C7_HardCap ==
    args.maxNumPaths >= 1 =>
        /\ augmentations <= args.maxNumPaths
        /\ iter = args.maxNumPaths => pc = "done"
        /\ pc = "done" => currentEnergy = args.initialStateEnergy + augmentedCost

\* the cap stopped the call while a negative-cost path was still there
C7_Witness ==
    /\ pc = "done" /\ args.maxNumPaths >= 1
    /\ iter = args.maxNumPaths /\ augmentations = args.maxNumPaths
    /\ NegativePathExists

AllFlowZero == \A a \in ArcIds(fg) : fg.flowMap_[a] = 0

\* C8: an iteration whose best path costs more than -1e-8 ends the loop and
\* changes no flow, no residual arc and not the energy; if that is the first
\* iteration of the first call, every arc keeps flow 0 and the call returns
\* initialStateEnergy.
C8_NoProfitNoChange ==
    /\ [][(pc = "loop" /\ result'.second >= 0)
            => /\ pc' = "done"
               /\ fg' = fg /\ residualGraph_' = residualGraph_
               /\ currentEnergy' = currentEnergy /\ augmentations' = augmentations]_vars
    /\ []((pc = "done" /\ calls = 1 /\ iter = 0 /\ result.second >= 0)
            => AllFlowZero /\ currentEnergy = args.initialStateEnergy)

\* the single detection of cost [+5]: a path was found, at cost 7, and the
\* call returned at once
C8_Witness ==
    /\ fg.arcCosts_ = ConstructAll(FlowGraph, NoProfitScenario, 1).arcCosts_
    /\ pc = "done" /\ calls = 1 /\ iter = 0
    /\ Len(result.first) > 0 /\ result.second >= 0

DivisionGraph == ConstructAll(FlowGraph, DivisionScenario, 1)
IsDivisionGraph == fg.arcs = DivisionGraph.arcs /\ fg.arcCosts_ = DivisionGraph.arcCosts_

\* the flow on the arc from node m to node w of the division scenario
FlowBetween(m, w) == FlowOver(ArcsBetween(m, w))

\* C9: the division scenario, solved with unlimited paths, ends with flow 1
\* on A.u -> A.v, on the division arc, on A.v -> B.u and on d_A -> C.u (or with
\* B and C exchanged) and returns initialStateEnergy - 9.  A is detection 1
\* (nodes 2, 3), B detection 2 (4, 5), C detection 3 (6, 7), d_A node 8.
C9_DivisionScenario ==
    (IsDivisionGraph /\ pc = "done" /\ calls = 1 /\ args.maxNumPaths < 1) =>
        /\ FlowBetween(2, 3) = 1
        /\ FlowBetween(fg.source_, 8) = 1
        /\ \/ FlowBetween(3, 4) = 1 /\ FlowBetween(8, 6) = 1
           \/ FlowBetween(3, 6) = 1 /\ FlowBetween(8, 4) = 1
        /\ currentEnergy = args.initialStateEnergy - 9

\* the division scenario solved: two augmentations, the second through d_A
C9_Witness ==
    /\ IsDivisionGraph /\ pc = "done" /\ calls = 1 /\ args.maxNumPaths < 1
    /\ iter = 2 /\ FlowBetween(fg.source_, 8) = 1

(* ============================ construction ============================ *)
\* C10: after any sequence of construction calls the source has timestep 0,
\* a detection added with timestep t has timestep(u) = 2t+1 and
\* timestep(v) = 2t+2, a duplicate has the timestep of its parent's v, all
\* targets share one timestep, and that timestep is strictly greater than
\* the timestep of every detection node and every duplicate.
C10_Timesteps ==
    LET ts == fg.nodeTimestepMap_
    IN /\ ts[fg.source_] = 0
       /\ \A i \in 1..Len(fg.fullNodes) :
             /\ ts[fg.fullNodes[i].u] = 2 * fg.fullNodes[i].t + 1
             /\ ts[fg.fullNodes[i].v] = 2 * fg.fullNodes[i].t + 2
       /\ \A d \in Duplicates : ts[d] = ts[fg.duplicateToParentMap_[d]]
       /\ \A i, j \in 1..Len(fg.targets_) : ts[fg.targets_[i]] = ts[fg.targets_[j]]
       /\ \A n \in NodeIds(fg) :
             (n # fg.source_ /\ ~isTarget(fg, n)) => ts[fg.targets_[1]] > ts[n]

\* a detection was added after one of a later timestep, and the later one
\* was allowed to divide
C10_Witness ==
    /\ Len(fg.fullNodes) = 2
    /\ fg.fullNodes[1].t > fg.fullNodes[2].t
    /\ fg.fullNodes[1].v \in Parents

\* the arcs a construction step added
NewArcs == (Len(fg.arcs) + 1)..Len(fg'.arcs)

\* a construction step that was a call of allowMitosis: the only call that
\* adds exactly one node
MitosisStep == fg'.numNodes = fg.numNodes + 1

\* the arcs of the graph before the step are all still there, untouched
OldArcsKept ==
    /\ Len(fg'.arcs) >= Len(fg.arcs)
    /\ \A a \in ArcIds(fg) :
          /\ fg'.arcs[a] = fg.arcs[a]
          /\ fg'.arcCosts_[a] = fg.arcCosts_[a]
          /\ fg'.flowMap_[a] = fg.flowMap_[a]
          /\ fg'.capacityMap_[a] = fg.capacityMap_[a]

\* C11: a call of allowMitosis adds one node d and, as its first new arc,
\* source -> d with cost vector [divisionCost], capacity 1, flow 0; every other
\* new arc leaves d, ends in a node that is no target and has capacity 1 and
\* flow 0; for each node w and first cost c there are as many new arcs d -> w
\* of cost [c] as parent.v had out-arcs to w with c[0] = c before the call.  A
\* call that adds no node or two adds no arc leaving a duplicate, so an
\* out-arc given to parent.v later gets no mirror.
C11_AllowMitosisArcs ==
    [][/\ OldArcsKept
       /\ MitosisStep =>
            LET d == fg.numNodes
                v == fg'.duplicateToParentMap_[d]
                division == Len(fg.arcs) + 1
            IN /\ d \in DOMAIN fg'.duplicateToParentMap_
               /\ NewArcs # {}
               /\ fg'.arcs[division] = [source |-> fg.source_, target |-> d]
               /\ fg'.arcCosts_[division] = <<-4>>
               /\ \A a \in NewArcs :
                     /\ fg'.capacityMap_[a] = 1 /\ fg'.flowMap_[a] = 0
                     /\ Len(fg'.arcCosts_[a]) = 1
                     /\ a # division =>
                          /\ fg'.arcs[a].source = d
                          /\ ~isTarget(fg, fg'.arcs[a].target)
               /\ \A w \in NodeIds(fg) : \A c \in {1, 2} :
                     Cardinality({a \in NewArcs : /\ fg'.arcs[a] = [source |-> d, target |-> w]
                                                  /\ fg'.arcCosts_[a] = <<c>>})
                       = IF isTarget(fg, w) THEN 0
                         ELSE Cardinality({a \in ArcIds(fg) :
                                             /\ fg.arcs[a] = [source |-> v, target |-> w]
                                             /\ fg.arcCosts_[a][1] = c})
       /\ ~MitosisStep => \A a \in NewArcs : fg'.arcs[a].source \notin Duplicates]_vars

\* a parent whose duplicate mirrors an out-arc with a two-entry cost vector,
\* and which got another out-arc afterwards that the duplicate does not have
C11_Witness ==
    \E d \in Duplicates : \E a, b, m \in ArcIds(fg) :
        /\ source(fg, a) = fg.duplicateToParentMap_[d] /\ Len(fg.arcCosts_[a]) = 2
        /\ source(fg, m) = d /\ target(fg, m) = target(fg, a) /\ a < m
        /\ source(fg, b) = fg.duplicateToParentMap_[d] /\ b > m
        /\ ~isTarget(fg, target(fg, b))

\* C12: parentToDuplicateMap_ and duplicateToParentMap_ are inverse to each
\* other after any sequence of construction calls: parentToDuplicate[v] = d
\* if and only if duplicateToParent[d] = v.
C12_Bijection ==
    /\ \A v \in Parents :
          /\ fg.parentToDuplicateMap_[v] \in Duplicates
          /\ fg.duplicateToParentMap_[fg.parentToDuplicateMap_[v]] = v
    /\ \A d \in Duplicates :
          /\ fg.duplicateToParentMap_[d] \in Parents
          /\ fg.parentToDuplicateMap_[fg.duplicateToParentMap_[d]] = d

\* C13: allowMitosis for a parent whose v has no out-arc fails and adds
\* nothing: a construction step adds a duplicate, a division arc or a map
\* entry only for a parent whose v had an out-arc before the step.
C13_MitosisNeedsOutArc ==
    [][\A d \in (DOMAIN fg'.duplicateToParentMap_) \ Duplicates :
          OutArcIt(fg, fg'.duplicateToParentMap_[d]) # <<>>]_vars

(* ========================= the residual graph ========================= *)
\* the arcs of the last augmented path
OnPath == {result.first[i][1] : i \in 1..Len(result.first)}

\* C14: between iterations, for every base arc a with flow f and capacity k,
\* the forward residual arc has capacity k - f and cost arcCost(a, f) and the
\* backward residual arc has capacity f and cost -arcCost(a, f - 1).
C14_ResidualAgrees ==
    BetweenIterations =>
        \A a \in ArcIds(fg) :
            LET f == fg.flowMap_[a]
                k == fg.capacityMap_[a]
            IN /\ residualGraph_.arcs[a].f.capacity = k - f
               /\ residualGraph_.arcs[a].f.cost = getArcCost(fg, a, f)
               /\ residualGraph_.arcs[a].b.capacity = f
               /\ residualGraph_.arcs[a].b.cost = -1 * getArcCost(fg, a, f - 1)

\* an augmentation through a duplicate arc has just raised the coupled parent
\* arc, which is not on the path
C14_Witness ==
    /\ BetweenIterations /\ augmentations >= 1
    /\ \E a \in OnPath : \E b \in ArcIds(fg) \ OnPath :
          /\ source(fg, a) \in Duplicates
          /\ source(fg, b) = fg.duplicateToParentMap_[source(fg, a)]
          /\ target(fg, b) = target(fg, a)
          /\ fg.flowMap_[b] >= 1 /\ residualGraph_.arcs[b].b.capacity >= 1

\* C15: once the residual graph is initialized, the backward residual arc of
\* every out-arc of a parent v that has a duplicate forbids the token id(v).
C15_ForbiddenOnOutArcs ==
    residualGraph_.exists =>
        \A v \in Parents : \A a \in ArcIds(fg) :
            source(fg, a) = v => v \in residualGraph_.arcs[a].b.forbidden

\* the division of parent v is enabled: an arc out of its duplicate is
DivisionEnabled(v) ==
    \E a \in ArcIds(fg) :
        /\ source(fg, a) = fg.parentToDuplicateMap_[v]
        /\ residualGraph_.arcs[a].f.enabled

\* C16: between iterations the division of a parent v is enabled only if
\* sumInFlow(v) = 1.
C16_DivisionOnlyWithOneUnit ==
    BetweenIterations =>
        \A v \in Parents : DivisionEnabled(v) => sumInFlow(fg, v) = 1

\* C17: between iterations, if the division arc source -> d carries flow 1,
\* every out-arc of parent(d) is disabled in the residual graph.
C17_MotherLocked ==
    BetweenIterations =>
        \A d \in Duplicates : \A a \in ArcIds(fg) :
            (target(fg, a) = d /\ fg.flowMap_[a] = 1) =>
                \A o \in ArcIds(fg) :
                    source(fg, o) = fg.duplicateToParentMap_[d] =>
                        /\ ~residualGraph_.arcs[o].f.enabled
                        /\ ~residualGraph_.arcs[o].b.enabled

(* ============== synchronizeDivisionDuplicateArcFlows ================== *)
\* the pairs <<a, b>> of an out-arc a of a parent and an out-arc b of its
\* duplicate with the same target
MirrorPairs ==
    {ab \in ArcIds(fg) \X ArcIds(fg) :
        /\ source(fg, ab[1]) \in Parents
        /\ source(fg, ab[2]) = fg.parentToDuplicateMap_[source(fg, ab[1])]
        /\ target(fg, ab[1]) = target(fg, ab[2])}

\* C18: synchronizeDivisionDuplicateArcFlows, applied to a flow within
\* capacity, gives every parent arc v -> w the maximum of its old flow and the
\* old flow of d -> w, gives d -> w the minimum of that and 1, keeps every
\* flow within capacity and changes no other arc; applied once more it
\* changes nothing.
C18_Synchronize ==
    [][/\ calls = 0 =>
            /\ \A ab \in MirrorPairs :
                  /\ fg'.flowMap_[ab[1]] = Max(fg.flowMap_[ab[1]], fg.flowMap_[ab[2]])
                  /\ fg'.flowMap_[ab[2]] = Min(fg'.flowMap_[ab[1]], 1)
            /\ \A a \in ArcIds(fg) :
                  /\ fg'.flowMap_[a] >= 0 /\ fg'.flowMap_[a] <= fg.capacityMap_[a]
                  /\ (\A ab \in MirrorPairs : a # ab[1] /\ a # ab[2])
                        => fg'.flowMap_[a] = fg.flowMap_[a]
       /\ calls >= 1 => fg' = fg]_vars

(* ============================= the energy ============================= *)
RECURSIVE ArcCostAtFlow(_, _)
\* c[0] + ... + c[f - 1]: what f units on an arc with cost vector c cost
ArcCostAtFlow(c, f) == IF f <= 0 THEN 0 ELSE c[f] + ArcCostAtFlow(c, f - 1)

RECURSIVE TotalCostFrom(_, _)
TotalCostFrom(g, a) ==
    IF a > Len(g.arcs) THEN 0
    ELSE ArcCostAtFlow(g.arcCosts_[a], g.flowMap_[a]) + TotalCostFrom(g, a + 1)

\* the total cost of the flow of g
TotalCost(g) == TotalCostFrom(g, 1)

\* C19: on a graph without duplicates, during and at the end of the first
\* call, the running energy is initialStateEnergy plus the total cost of the
\* flow.
C19_EnergyIsTotalCost ==
    (Duplicates = {} /\ calls = 1 /\ BetweenIterations) =>
        currentEnergy = args.initialStateEnergy + TotalCost(fg)

(* ============================== re-running ============================ *)
\* C20: a call that follows a returned call with unlimited paths on the same
\* FlowGraph keeps the residual graph it finds, changes no flow and no
\* residual arc, augments nothing, does not throw, and returns the
\* initialStateEnergy it was given.  (Under SpecRerun the first call has
\* unlimited paths, so every call after it is such a call.)
C20_RerunIsNoOp ==
    /\ [][calls' >= 2 => /\ fg' = fg
                         /\ residualGraph_' = residualGraph_
                         /\ augmentations' = 0
                         /\ pc' # "error"]_vars
    /\ []((calls >= 2 /\ pc = "done") => currentEnergy = args.initialStateEnergy)

\* the second call has returned on a graph that the first call left with flow
C20_Witness ==
    /\ calls = 2 /\ pc = "done"
    /\ \E a \in ArcIds(fg) : fg.flowMap_[a] > 0
    /\ currentEnergy \in RerunEnergies

====
